---- MODULE Spec2Model ----
(***************************************************************************)
(* Model of lib/connection/connection_config.js: the ConnectionConfig      *)
(* constructor (validation of the options, derivation of the access url,   *)
(* proxy settings, parameter registry), clearCredentials() and the         *)
(* parameter accessors.                                                    *)
(*                                                                         *)
(* JavaScript values are records [t, s, n, h]: t is the typeof tag, s the  *)
(* characters of a string (or the elements of an array), and a number is   *)
(* n + h/100 (n its floor).  A string is the sequence of its characters,   *)
(* so indexOf, substring and format are computed character by character.   *)
(* An options object is a function from property names to values; a        *)
(* property that is absent and one that holds undefined are not told       *)
(* apart.  Errors are the codes the constructor throws; an exception of    *)
(* the engine is named by its type.                                        *)
(***************************************************************************)
EXTENDS Integers, Sequences, FiniteSets, TLC

\* ------------------------------------------------------------------ bounds
MaxAccountLen == 3
MaxParamInt == 1

\* ------------------------------------------------------------ JS values
Undef == [t |-> "undefined", s |-> <<>>, n |-> 0, h |-> 0]
Null == [t |-> "null", s |-> <<>>, n |-> 0, h |-> 0]
Str(chars) == [t |-> "string", s |-> chars, n |-> 0, h |-> 0]
Num(i, hundredths) == [t |-> "number", s |-> <<>>, n |-> i, h |-> hundredths]
Bool(b) == [t |-> "boolean", s |-> <<>>, n |-> IF b THEN 1 ELSE 0, h |-> 0]
Arr(elems) == [t |-> "array", s |-> elems, n |-> 0, h |-> 0]

\* ------------------------------------------------------------ Util helpers
Exists(v) == v.t # "undefined" /\ v.t # "null"
IsString(v) == v.t = "string"
IsNumber(v) == v.t = "number"
IsBoolean(v) == v.t = "boolean"
IsArray(v) == v.t = "array"
Truthy(v) ==
  CASE v.t = "boolean" -> v.n = 1
    [] v.t = "number" -> v.n # 0 \/ v.h # 0
    [] v.t = "string" -> v.s # <<>>
    [] v.t = "array" -> TRUE
    [] OTHER -> FALSE

IsInteger(v) == IsNumber(v) /\ v.h = 0
IsPositive(v) == IsNumber(v) /\ (v.n > 0 \/ (v.n = 0 /\ v.h > 0))
IsNonNegative(v) == IsNumber(v) /\ v.n >= 0
IsPositiveInteger(v) == IsInteger(v) /\ IsPositive(v)
IsNonNegativeInteger(v) == IsInteger(v) /\ IsNonNegative(v)

Validate(kind, v) ==
  CASE kind = "isPositiveInteger" -> IsPositiveInteger(v)
    [] kind = "isNonNegativeInteger" -> IsNonNegativeInteger(v)
    [] kind = "isNonNegativeNumber" -> IsNonNegative(v)

RecognizedNativeTypes == {"String", "Boolean", "Number", "Date", "JSON"}

FindInvalidValue(elems) ==
  IF \A i \in 1..Len(elems) : elems[i] \in RecognizedNativeTypes
  THEN -1
  ELSE (CHOOSE i \in 1..Len(elems) :
          /\ elems[i] \notin RecognizedNativeTypes
          /\ \A j \in 1..(i - 1) : elems[j] \in RecognizedNativeTypes) - 1

\* ------------------------------------------------------------ errors
NoError == "none"

Check(cond, code) == IF cond THEN NoError ELSE code

FirstError(errs) ==
  IF \A i \in 1..Len(errs) : errs[i] = NoError
  THEN NoError
  ELSE errs[CHOOSE i \in 1..Len(errs) :
              /\ errs[i] # NoError
              /\ \A j \in 1..(i - 1) : errs[j] = NoError]

\* ------------------------------------------------------------ strings
IndexOfDot(chars) ==
  IF \E i \in 1..Len(chars) : chars[i] = "."
  THEN (CHOOSE i \in 1..Len(chars) :
          /\ chars[i] = "."
          /\ \A j \in 1..(i - 1) : chars[j] # ".") - 1
  ELSE -1

Substring(chars, from, to) == SubSeq(chars, from + 1, to)

Https == <<"h", "t", "t", "p", "s", ":", "/", "/">>

SnowflakeDomain ==
  <<".", "s", "n", "o", "w", "f", "l", "a", "k", "e", "c", "o", "m", "p",
    "u", "t", "i", "n", "g", ".", "c", "o", "m">>

UsWest2 == <<"u", "s", "-", "w", "e", "s", "t", "-", "2">>

Format(account, region) == Https \o account \o region \o SnowflakeDomain

\* ------------------------------------------------------------ option keys
PARAM_TIMEOUT == "timeout"
PARAM_RESULT_PREFETCH == "resultPrefetch"
PARAM_RESULT_STREAM_INTERRUPTS == "resultStreamInterrupts"
PARAM_RESULT_CHUNK_CACHE_SIZE == "resultChunkCacheSize"
PARAM_RESULT_PROCESSING_BATCH_SIZE == "resultProcessingBatchSize"
PARAM_RESULT_PROCESSING_BATCH_DURATION == "resultProcessingBatchDuration"
PARAM_ROW_STREAM_HIGH_WATER_MARK == "rowStreamHighWaterMark"
PARAM_RETRY_LARGE_RESULT_SET_MAX_NUM_RETRIES == "largeResultSetRetryMaxNumRetries"
PARAM_RETRY_LARGE_RESULT_SET_MAX_SLEEP_TIME == "largeResultSetRetryMaxSleepTime"
PARAM_RETRY_SF_MAX_NUM_RETRIES == "sfRetryMaxNumRetries"
PARAM_RETRY_SF_STARTING_SLEEP_TIME == "sfRetryStartingSleepTime"
PARAM_RETRY_SF_MAX_SLEEP_TIME == "sfRetryMaxSleepTime"

Param(name, defaultValue, external, validate) ==
  [name |-> name, defaultValue |-> defaultValue, external |-> external,
   validate |-> validate, value |-> Undef]

createParameters ==
  << Param(PARAM_TIMEOUT, Num(90 * 1000, 0), TRUE, "isPositiveInteger"),
     Param(PARAM_RESULT_PREFETCH, Num(2, 0), TRUE, "isPositiveInteger"),
     Param(PARAM_RESULT_STREAM_INTERRUPTS, Num(3, 0), FALSE, "isPositiveInteger"),
     Param(PARAM_RESULT_CHUNK_CACHE_SIZE, Num(1, 0), FALSE, "isPositiveInteger"),
     Param(PARAM_RESULT_PROCESSING_BATCH_SIZE, Num(1000, 0), FALSE, "isPositiveInteger"),
     Param(PARAM_RESULT_PROCESSING_BATCH_DURATION, Num(100, 0), FALSE, "isPositiveInteger"),
     Param(PARAM_ROW_STREAM_HIGH_WATER_MARK, Num(10, 0), FALSE, "isPositiveInteger"),
     Param(PARAM_RETRY_LARGE_RESULT_SET_MAX_NUM_RETRIES, Num(10, 0), FALSE, "isNonNegativeInteger"),
     Param(PARAM_RETRY_LARGE_RESULT_SET_MAX_SLEEP_TIME, Num(16, 0), FALSE, "isNonNegativeInteger"),
     Param(PARAM_RETRY_SF_MAX_NUM_RETRIES, Num(1000, 0), FALSE, "isNonNegativeInteger"),
     Param(PARAM_RETRY_SF_STARTING_SLEEP_TIME, Num(0, 25), FALSE, "isNonNegativeNumber"),
     Param(PARAM_RETRY_SF_MAX_SLEEP_TIME, Num(16, 0), FALSE, "isNonNegativeNumber") >>

ParamNames == {createParameters[i].name : i \in 1..Len(createParameters)}

KeyOrder ==
  << "username", "password", "account", "region", "accessUrl",
     "proxyHost", "proxyPort", "warehouse", "database", "schema", "role",
     "streamResult", "fetchAsString",
     PARAM_TIMEOUT, PARAM_RESULT_PREFETCH, PARAM_RESULT_STREAM_INTERRUPTS,
     PARAM_RESULT_CHUNK_CACHE_SIZE, PARAM_RESULT_PROCESSING_BATCH_SIZE,
     PARAM_RESULT_PROCESSING_BATCH_DURATION, PARAM_ROW_STREAM_HIGH_WATER_MARK,
     PARAM_RETRY_LARGE_RESULT_SET_MAX_NUM_RETRIES,
     PARAM_RETRY_LARGE_RESULT_SET_MAX_SLEEP_TIME,
     PARAM_RETRY_SF_MAX_NUM_RETRIES, PARAM_RETRY_SF_STARTING_SLEEP_TIME,
     PARAM_RETRY_SF_MAX_SLEEP_TIME, "foo", "hasOwnProperty" >>

Keys == {KeyOrder[i] : i \in 1..Len(KeyOrder)}

Reverse(seq) == [i \in 1..Len(seq) |-> seq[Len(seq) + 1 - i]]

EnumerationOrders == {KeyOrder, Reverse(KeyOrder)}

\* ------------------------------------------------------------ constructor
\* lines 23-27: the flag defaults to true when it is not supplied
EffectiveValidateCredentials(vc) == IF ~Exists(vc) THEN TRUE ELSE Truthy(vc)

\* lines 29-35: the options argument itself
OptionsErrors(optionsType) ==
  FirstError(<<
    Check(optionsType \notin {"undefined", "null"}, "ERR_CONN_CREATE_MISSING_OPTIONS"),
    Check(optionsType = "object", "ERR_CONN_CREATE_INVALID_OPTIONS") >>)

\* variant: the password is checked before the username
CredentialErrorsPasswordFirst(o) ==
  FirstError(<<
    Check(Exists(o.password), "ERR_CONN_CREATE_MISSING_PASSWORD"),
    Check(IsString(o.password), "ERR_CONN_CREATE_INVALID_PASSWORD"),
    Check(Exists(o.username), "ERR_CONN_CREATE_MISSING_USERNAME"),
    Check(IsString(o.username), "ERR_CONN_CREATE_INVALID_USERNAME"),
    Check(Exists(o.account), "ERR_CONN_CREATE_MISSING_ACCOUNT"),
    Check(IsString(o.account), "ERR_CONN_CREATE_INVALID_ACCOUNT") >>)

\* variant: the type of the password is not checked
CredentialErrorsNoPasswordType(o) ==
  FirstError(<<
    Check(Exists(o.username), "ERR_CONN_CREATE_MISSING_USERNAME"),
    Check(IsString(o.username), "ERR_CONN_CREATE_INVALID_USERNAME"),
    Check(Exists(o.password), "ERR_CONN_CREATE_MISSING_PASSWORD"),
    Check(Exists(o.account), "ERR_CONN_CREATE_MISSING_ACCOUNT"),
    Check(IsString(o.account), "ERR_CONN_CREATE_INVALID_ACCOUNT") >>)

\* lines 40-62: username, password, account, each checked for presence and type
CredentialErrors(o) ==
  FirstError(<<
    Check(Exists(o.username), "ERR_CONN_CREATE_MISSING_USERNAME"),
    Check(IsString(o.username), "ERR_CONN_CREATE_INVALID_USERNAME"),
    Check(Exists(o.password), "ERR_CONN_CREATE_MISSING_PASSWORD"),
    Check(IsString(o.password), "ERR_CONN_CREATE_INVALID_PASSWORD"),
    Check(Exists(o.account), "ERR_CONN_CREATE_MISSING_ACCOUNT"),
    Check(IsString(o.account), "ERR_CONN_CREATE_INVALID_ACCOUNT") >>)

\* variant: a leading dot splits too (dotPos >= 0)
SplitAccountLeadingDot(o) ==
  LET dotPos == IndexOfDot(o.account.s)
      length == Len(o.account.s)
  IN IF dotPos >= 0 /\ dotPos < length - 1
     THEN [o EXCEPT !.region = Str(Substring(o.account.s, dotPos + 1, length)),
                    !.account = Str(Substring(o.account.s, 0, dotPos))]
     ELSE o

\* lines 64-71: a dotted account is split into account and region
SplitAccount(o) ==
  LET dotPos == IndexOfDot(o.account.s)
      length == Len(o.account.s)
  IN IF dotPos > 0 /\ dotPos < length - 1
     THEN [o EXCEPT !.region = Str(Substring(o.account.s, dotPos + 1, length)),
                    !.account = Str(Substring(o.account.s, 0, dotPos))]
     ELSE o

\* variant: the access url is derived even when one is supplied
DeriveAccessUrlAlways(o) ==
  IF ~Exists(o.region)
  THEN [err |-> NoError,
        o |-> [o EXCEPT !.accessUrl = Str(Format(o.account.s, <<>>))]]
  ELSE IF ~IsString(o.region)
  THEN [err |-> "ERR_CONN_CREATE_INVALID_REGION", o |-> o]
  ELSE IF o.region = Str(UsWest2)
  THEN [err |-> NoError,
        o |-> [o EXCEPT !.region = Str(<<>>),
                        !.accessUrl = Str(Format(o.account.s, <<>>))]]
  ELSE [err |-> NoError,
        o |-> [o EXCEPT !.accessUrl =
                 Str(Format(o.account.s, <<".">> \o o.region.s))]]

\* lines 73-100: the access url is derived when none is supplied
DeriveAccessUrl(o) ==
  IF Exists(o.accessUrl)
  THEN [err |-> NoError, o |-> o]
  ELSE IF ~Exists(o.region)
  THEN [err |-> NoError,
        o |-> [o EXCEPT !.accessUrl = Str(Format(o.account.s, <<>>))]]
  ELSE IF ~IsString(o.region)
  THEN [err |-> "ERR_CONN_CREATE_INVALID_REGION", o |-> o]
  ELSE IF o.region = Str(UsWest2)
  THEN [err |-> NoError,
        o |-> [o EXCEPT !.region = Str(<<>>),
                        !.accessUrl = Str(Format(o.account.s, <<>>))]]
  ELSE [err |-> NoError,
        o |-> [o EXCEPT !.accessUrl =
                 Str(Format(o.account.s, <<".">> \o o.region.s))]]

\* lines 37-101: the whole credential block
ValidateIdentity(o, vc) ==
  IF ~EffectiveValidateCredentials(vc)
  THEN [err |-> NoError, o |-> o]
  ELSE IF CredentialErrors(o) # NoError
  THEN [err |-> CredentialErrors(o), o |-> o]
  ELSE DeriveAccessUrl(SplitAccount(o))

\* variant: the type of the access url is not checked
AccessUrlErrorsNoTypeCheck(o) ==
  Check(Exists(o.accessUrl), "ERR_CONN_CREATE_MISSING_ACCESS_URL")

\* lines 103-109
AccessUrlErrors(o) ==
  FirstError(<<
    Check(Exists(o.accessUrl), "ERR_CONN_CREATE_MISSING_ACCESS_URL"),
    Check(IsString(o.accessUrl), "ERR_CONN_CREATE_INVALID_ACCESS_URL") >>)

\* lines 111-139
NoProxy == [present |-> FALSE, host |-> Undef, port |-> Undef]

\* variant: the proxy block runs only when both fields are given
ProxyActiveBoth(o, node) == node /\ (Exists(o.proxyHost) /\ Exists(o.proxyPort))

\* line 116
ProxyActive(o, node) == node /\ (Exists(o.proxyHost) \/ Exists(o.proxyPort))

ProxyErrors(o, node) ==
  IF ~ProxyActive(o, node)
  THEN NoError
  ELSE FirstError(<<
    Check(Exists(o.proxyHost), "ERR_CONN_CREATE_MISSING_PROXY_HOST"),
    Check(IsString(o.proxyHost), "ERR_CONN_CREATE_INVALID_PROXY_HOST"),
    Check(Exists(o.proxyPort), "ERR_CONN_CREATE_MISSING_PROXY_PORT"),
    Check(IsNumber(o.proxyPort), "ERR_CONN_CREATE_INVALID_PROXY_PORT") >>)

ResolveProxy(o, node) ==
  IF ProxyActive(o, node)
  THEN [present |-> TRUE, host |-> o.proxyHost, port |-> o.proxyPort]
  ELSE NoProxy

\* lines 141-195
ScalarErrors(o) ==
  FirstError(<<
    Check(Exists(o.warehouse) => IsString(o.warehouse),
          "ERR_CONN_CREATE_INVALID_WAREHOUSE"),
    Check(Exists(o.database) => IsString(o.database),
          "ERR_CONN_CREATE_INVALID_DATABASE"),
    Check(Exists(o.schema) => IsString(o.schema),
          "ERR_CONN_CREATE_INVALID_SCHEMA"),
    Check(Exists(o.role) => IsString(o.role),
          "ERR_CONN_CREATE_INVALID_ROLE"),
    Check(Exists(o.streamResult) => IsBoolean(o.streamResult),
          "ERR_CONN_CREATE_INVALID_STREAM_RESULT"),
    Check(Exists(o.fetchAsString) => IsArray(o.fetchAsString),
          "ERR_CONN_CREATE_INVALID_FETCH_AS_STRING"),
    Check((Exists(o.fetchAsString) /\ IsArray(o.fetchAsString))
            => FindInvalidValue(o.fetchAsString.s) = -1,
          "ERR_CONN_CREATE_INVALID_FETCH_AS_STRING_VALUES") >>)

\* lines 200-211: clientInfo is abstracted to the outcome of its three assertions
ClientInfoKinds ==
  {"undefined", "valid", "notObject", "versionNotString", "environmentNotObject"}

ClientInfoErrors(clientInfo) ==
  Check(clientInfo \in {"undefined", "valid"}, "ERR_INTERNAL_ASSERT_FAILED")

\* lines 325-339: the map of parameters, each initialised to its default
InitialMapParameters ==
  [name \in ParamNames |->
     LET parameter ==
           createParameters[CHOOSE i \in 1..Len(createParameters) :
                              createParameters[i].name = name]
     IN [parameter EXCEPT !.value = parameter.defaultValue]]

\* variant: the external flag is not consulted
ApplyPropertyIgnoringExternal(mapParameters, propertyName, propertyValue) ==
  LET parameter == mapParameters[propertyName]
  IN IF Validate(parameter.validate, propertyValue)
     THEN [mapParameters EXCEPT ![propertyName].value = propertyValue]
     ELSE mapParameters

\* lines 348-355: one property of the options that names a known parameter
ApplyProperty(mapParameters, propertyName, propertyValue) ==
  LET parameter == mapParameters[propertyName]
  IN IF parameter.external /\ Validate(parameter.validate, propertyValue)
     THEN [mapParameters EXCEPT ![propertyName].value = propertyValue]
     ELSE mapParameters

\* line 343: the own properties of the options, in the engine's enumeration order
RECURSIVE OwnProperties(_, _)
OwnProperties(o, order) ==
  IF order = <<>> THEN <<>>
  ELSE IF o[Head(order)] # Undef
  THEN <<Head(order)>> \o OwnProperties(o, Tail(order))
  ELSE OwnProperties(o, Tail(order))

\* lines 343-357: options.hasOwnProperty is looked up on the options object
\* itself, so an own property of that name shadows Object.prototype's method
\* and the call throws
RECURSIVE ForEachProperty(_, _, _)
ForEachProperty(propertyNames, o, mapParameters) ==
  IF propertyNames = <<>>
  THEN [err |-> NoError, map |-> mapParameters]
  ELSE IF o["hasOwnProperty"] # Undef
  THEN [err |-> "TypeError", map |-> mapParameters]
  ELSE IF Head(propertyNames) \in DOMAIN mapParameters
  THEN ForEachProperty(Tail(propertyNames), o,
         ApplyProperty(mapParameters, Head(propertyNames), o[Head(propertyNames)]))
  ELSE ForEachProperty(Tail(propertyNames), o, mapParameters)

ResolveParameters(o, order) ==
  ForEachProperty(OwnProperties(o, order), o, InitialMapParameters)

\* the object before/without a successful construction
NoConfig ==
  [username |-> Undef, password |-> Undef, accessUrl |-> Undef, account |-> Undef,
   proxy |-> NoProxy, warehouse |-> Undef, database |-> Undef, schema |-> Undef,
   role |-> Undef, streamResult |-> Undef, fetchAsString |-> Undef,
   qaMode |-> Undef, clientVersion |-> "undefined",
   mapParameters |-> [name \in {} |-> Undef]]

\* lines 198-360: the fields and closures of the constructed object
BuildConfig(o, node, qaMode, clientInfo, mapParameters) ==
  [username |-> o.username, password |-> o.password,
   accessUrl |-> o.accessUrl, account |-> o.account,
   proxy |-> ResolveProxy(o, node),
   warehouse |-> o.warehouse, database |-> o.database, schema |-> o.schema,
   role |-> o.role, streamResult |-> o.streamResult,
   fetchAsString |-> o.fetchAsString,
   qaMode |-> qaMode, clientVersion |-> clientInfo,
   mapParameters |-> mapParameters]

\* lines 29-211: the first check that fails, in the order of the code
ValidationError(o, optionsType, vc, node, clientInfo) ==
  IF OptionsErrors(optionsType) # NoError
  THEN OptionsErrors(optionsType)
  ELSE LET identity == ValidateIdentity(o, vc)
       IN FirstError(<< identity.err, AccessUrlErrors(identity.o),
                        ProxyErrors(identity.o, node), ScalarErrors(identity.o),
                        ClientInfoErrors(clientInfo) >>)

\* lines 21-361: the constructor; returns the error thrown (or none), the
\* caller's options object as the constructor leaves it, and the new object
ConnectionConfig(o, optionsType, vc, node, qaMode, clientInfo, order) ==
  IF OptionsErrors(optionsType) # NoError
  THEN [error |-> OptionsErrors(optionsType), options |-> o, this |-> NoConfig]
  ELSE
    LET o1 == ValidateIdentity(o, vc).o
        invalid == ValidationError(o, optionsType, vc, node, clientInfo)
        parameters == ResolveParameters(o1, order)
    IN IF invalid # NoError
       THEN [error |-> invalid, options |-> o1, this |-> NoConfig]
       ELSE IF parameters.err # NoError
       THEN [error |-> parameters.err, options |-> o1, this |-> NoConfig]
       ELSE [error |-> NoError, options |-> o1,
             this |-> BuildConfig(o1, node, qaMode, clientInfo, parameters.map)]

\* variant: the username is cleared with the password
clearCredentialsAndUsername(this) ==
  [this EXCEPT !.password = Null, !.username = Null]

\* lines 376-382
clearCredentials(this) == [this EXCEPT !.password = Null]

\* variant: parameter.value is read without the guard
getParameterValueUnguarded(this, parameterName) ==
  IF parameterName \in DOMAIN this.mapParameters
  THEN [error |-> NoError, value |-> this.mapParameters[parameterName].value]
  ELSE [error |-> "TypeError", value |-> Undef]

\* lines 547-551
getParameterValue(this, parameterName) ==
  IF parameterName \in DOMAIN this.mapParameters
  THEN [error |-> NoError, value |-> this.mapParameters[parameterName].value]
  ELSE [error |-> NoError, value |-> Undef]

\* ------------------------------------------------------------ inputs
EmptyOptions == [k \in Keys |-> Undef]

U == Str(<<"u">>)
P == Str(<<"p">>)
A == Str(<<"a">>)
Url == Str(Https \o <<"h">>)
Five == Num(5, 0)

ValidOptions ==
  [EmptyOptions EXCEPT !.username = U, !.password = P, !.account = A]

AccountChars == {"a", "."}

BoundedStrings == UNION {[1..n -> AccountChars] : n \in 0..MaxAccountLen}

AccountStrings == BoundedStrings \cup {<<"a", ".">> \o UsWest2}

Flags == {Undef, Bool(TRUE), Bool(FALSE)}

Input(o, vc, node) ==
  [options |-> o, optionsType |-> "object", vc |-> vc, node |-> node,
   qaMode |-> Undef, clientInfo |-> "undefined"]

\* credentials of every kind, with and without validation
CredentialInputs ==
  {Input([EmptyOptions EXCEPT !.username = u, !.password = p,
                              !.account = a, !.accessUrl = url], vc, TRUE) :
     u \in {Undef, Null, Five, Str(<<>>), U},
     p \in {Undef, Null, Five, Str(<<>>), P},
     a \in {Undef, Null, Five, Str(<<>>), A},
     url \in {Undef, Url},
     vc \in Flags}

\* every account string, region and access url
DerivationInputs ==
  {Input([ValidOptions EXCEPT !.account = Str(a), !.region = r,
                              !.accessUrl = url], vc, TRUE) :
     a \in AccountStrings,
     r \in {Undef, Null, Five, Str(<<>>), Str(<<"b">>), Str(UsWest2)},
     url \in {Undef, Null, Five, Str(<<>>), A, Url},
     vc \in Flags}

\* proxy fields in both contexts, after a passing or a failing identity check
ProxyInputs ==
  {Input([ValidOptions EXCEPT !.username = u, !.accessUrl = url,
                              !.proxyHost = host, !.proxyPort = port], vc, node) :
     u \in {Undef, U},
     url \in {Undef, Url},
     host \in {Undef, Null, Five, Str(<<"h">>)},
     port \in {Undef, Null, Str(<<"8">>), Num(8080, 0)},
     vc \in {Bool(TRUE), Bool(FALSE)},
     node \in BOOLEAN}

\* the remaining optional fields and arguments, one at a time
ScalarInputs ==
  {Input([ValidOptions EXCEPT ![k] = v], Bool(TRUE), TRUE) :
     k \in {"warehouse", "database", "schema", "role", "streamResult",
            "fetchAsString"},
     v \in {Null, Five, Str(<<"w">>), Bool(TRUE), Arr(<<"String">>),
            Arr(<<"String", "Bogus">>)}}
  \cup {[Input(ValidOptions, Bool(TRUE), TRUE) EXCEPT !.clientInfo = ci, !.qaMode = qa] :
          ci \in ClientInfoKinds, qa \in Flags}
  \cup {[Input(EmptyOptions, vc, TRUE) EXCEPT !.optionsType = ot] :
          ot \in {"undefined", "null", "string"}, vc \in Flags}

ParamValues ==
  {Num(i, 0) : i \in -1..MaxParamInt} \cup {Num(0, 50), Str(<<"5">>)}
  \cup {Num(99, 0)}

\* one or two catalog parameters supplied together
ParameterInputs ==
  {Input([ValidOptions EXCEPT ![k1] = v1, ![k2] = v2], Bool(TRUE), TRUE) :
     k1 \in ParamNames, v1 \in ParamValues,
     k2 \in {PARAM_TIMEOUT, PARAM_RESULT_STREAM_INTERRUPTS}, v2 \in ParamValues}

\* keys that are no catalog names
ExtraKeyInputs ==
  {Input([ValidOptions EXCEPT ![k] = v, !.foo = foo, !.hasOwnProperty = hop],
         Bool(TRUE), TRUE) :
     k \in {PARAM_TIMEOUT, PARAM_RESULT_STREAM_INTERRUPTS},
     v \in ParamValues \cup {Undef},
     foo \in {Undef, Five},
     hop \in {Undef, Num(1, 0)}}

Inputs ==
  CredentialInputs \cup DerivationInputs \cup ProxyInputs \cup ScalarInputs
  \cup ParameterInputs \cup ExtraKeyInputs

ReadNames == ParamNames \cup {"unknown"}

\* ------------------------------------------------------------ state machine
VARIABLES
  options,              \* the caller's options object
  optionsType,          \* what the caller passed as options
  validateCredentials,  \* constructor argument
  isNode,               \* Util.isNode() of the runtime
  qaMode,               \* constructor argument
  clientInfo,           \* constructor argument
  options0,             \* the options object as it was passed
  pc,                   \* "new", "constructed" or "failed"
  error,                \* the error the constructor threw, or none
  this,                 \* the ConnectionConfig object
  lastRead              \* the last accessor call and what it returned

vars ==
  << options, optionsType, validateCredentials, isNode, qaMode, clientInfo,
     options0, pc, error, this, lastRead >>

arguments ==
  << optionsType, validateCredentials, isNode, qaMode, clientInfo, options0 >>

NoRead == [name |-> "", error |-> NoError, value |-> Undef]

Init ==
  \E in \in Inputs :
    /\ options = in.options
    /\ options0 = in.options
    /\ optionsType = in.optionsType
    /\ validateCredentials = in.vc
    /\ isNode = in.node
    /\ qaMode = in.qaMode
    /\ clientInfo = in.clientInfo
    /\ pc = "new"
    /\ error = NoError
    /\ this = NoConfig
    /\ lastRead = NoRead

Construct ==
  /\ pc = "new"
  /\ \E order \in EnumerationOrders :
       LET result == ConnectionConfig(options, optionsType, validateCredentials,
                                      isNode, qaMode, clientInfo, order)
       IN /\ options' = result.options
          /\ error' = result.error
          /\ this' = result.this
          /\ pc' = IF result.error = NoError THEN "constructed" ELSE "failed"
  /\ UNCHANGED << arguments, lastRead >>

ClearCredentials ==
  /\ pc = "constructed"
  /\ this' = clearCredentials(this)
  /\ UNCHANGED << options, arguments, pc, error, lastRead >>

GetParameterValue ==
  /\ pc = "constructed"
  /\ \E parameterName \in ReadNames :
       LET result == getParameterValue(this, parameterName)
       IN lastRead' = [name |-> parameterName, error |-> result.error,
                       value |-> result.value]
  /\ UNCHANGED << options, arguments, pc, error, this >>

Next == Construct \/ ClearCredentials \/ GetParameterValue

Spec == Init /\ [][Next]_vars

\* ------------------------------------------------------------ properties
ValidationOn == EffectiveValidateCredentials(validateCredentials)

Returned == pc # "new"

Constructed == pc = "constructed"

CredentialFields == <<"username", "password", "account">>

MissingError(field) ==
  CASE field = "username" -> "ERR_CONN_CREATE_MISSING_USERNAME"
    [] field = "password" -> "ERR_CONN_CREATE_MISSING_PASSWORD"
    [] field = "account" -> "ERR_CONN_CREATE_MISSING_ACCOUNT"

InvalidError(field) ==
  CASE field = "username" -> "ERR_CONN_CREATE_INVALID_USERNAME"
    [] field = "password" -> "ERR_CONN_CREATE_INVALID_PASSWORD"
    [] field = "account" -> "ERR_CONN_CREATE_INVALID_ACCOUNT"

BadCredential(i) == ~IsString(options0[CredentialFields[i]])

WithoutCredentials(o) ==
  [o EXCEPT !.username = Undef, !.password = Undef, !.account = Undef]

OnlyIdentitySupplied ==
  /\ \A k \in Keys \ {"username", "password", "account", "region", "accessUrl"} :
       options0[k] = Undef
  /\ clientInfo \in {"undefined", "valid"}

\* C1 as stated: with validation on, each absent credential field fails
\* construction with that field's missing-field error and each present
\* non-string one with that field's invalid-field error; with validation off
\* construction succeeds as soon as accessUrl is present.
C1_AsStated ==
  (Returned /\ optionsType = "object") =>
    /\ ValidationOn =>
         \A i \in 1..3 :
           LET field == CredentialFields[i]
           IN /\ ~Exists(options0[field]) => error = MissingError(field)
              /\ (Exists(options0[field]) /\ ~IsString(options0[field]))
                   => error = InvalidError(field)
    /\ ~ValidationOn => (Exists(options0.accessUrl) => Constructed)

\* C1 (amended): with validation on, the first of username, password, account
\* (in that order) that is absent or not a string makes construction fail,
\* with that field's missing-field error when it is absent and its invalid-field
\* error when it is present but not a string; with validation off none of the
\* three is checked: the outcome is that of the same options without them, and
\* construction succeeds when accessUrl is a string and nothing else is supplied.
C1_FirstBadCredentialDecides ==
  (Returned /\ optionsType = "object") =>
    /\ ValidationOn =>
         \A i \in 1..3 :
           (BadCredential(i) /\ \A j \in 1..(i - 1) : ~BadCredential(j)) =>
             LET field == CredentialFields[i]
             IN /\ pc = "failed"
                /\ error = IF Exists(options0[field])
                           THEN InvalidError(field) ELSE MissingError(field)
    /\ ~ValidationOn =>
         /\ error = ConnectionConfig(WithoutCredentials(options0), optionsType,
                                     validateCredentials, isNode, qaMode,
                                     clientInfo, KeyOrder).error
         /\ (IsString(options0.accessUrl) /\ OnlyIdentitySupplied) => Constructed

C1_Witness ==
  /\ pc = "failed"
  /\ ValidationOn
  /\ IsString(options0.username)
  /\ ~Exists(options0.password)
  /\ ~IsString(options0.account)
  /\ error = "ERR_CONN_CREATE_MISSING_PASSWORD"

\* the (account, region) pair the url is built from
SplitsAt(chars) ==
  LET p == IndexOfDot(chars) IN p > 0 /\ p < Len(chars) - 1

AccountPart(chars) ==
  IF SplitsAt(chars) THEN SubSeq(chars, 1, IndexOfDot(chars)) ELSE chars

RegionPart(chars, region) ==
  IF SplitsAt(chars)
  THEN Str(SubSeq(chars, IndexOfDot(chars) + 2, Len(chars)))
  ELSE region

Segment(r) ==
  IF ~Exists(r) \/ r = Str(UsWest2) THEN <<>> ELSE <<".">> \o r.s

ExpectedUrl(chars, region) ==
  Https \o AccountPart(chars) \o Segment(RegionPart(chars, region))
        \o SnowflakeDomain

\* C2: with validation on and no accessUrl supplied, for a string account and
\* an absent or string region, the constructed accessUrl is
\* https://{a}{seg}.snowflakecomputing.com for the split pair (a, r); and a
\* dotted account without region gives the accessUrl and account that passing
\* a and r explicitly gives.
C2_DerivedUrl ==
  (/\ Constructed
   /\ ValidationOn
   /\ ~Exists(options0.accessUrl)
   /\ IsString(options0.account)
   /\ (Exists(options0.region) => IsString(options0.region)))
  =>
    /\ this.accessUrl = Str(ExpectedUrl(options0.account.s, options0.region))
    /\ this.account = Str(AccountPart(options0.account.s))
    /\ (SplitsAt(options0.account.s) /\ ~Exists(options0.region)) =>
         LET explicit ==
               ConnectionConfig(
                 [options0 EXCEPT
                    !.account = Str(AccountPart(options0.account.s)),
                    !.region = RegionPart(options0.account.s, Undef)],
                 optionsType, validateCredentials, isNode, qaMode,
                 clientInfo, KeyOrder)
         IN /\ explicit.error = NoError
            /\ explicit.this.accessUrl = this.accessUrl
            /\ explicit.this.account = this.account

C2_Witness ==
  /\ Constructed
  /\ ValidationOn
  /\ ~Exists(options0.accessUrl)
  /\ ~Exists(options0.region)
  /\ options0.account = Str(<<"a", ".", "a">>)
  /\ this.account = A
  /\ this.accessUrl = Str(Https \o <<"a", ".", "a">> \o SnowflakeDomain)

WellFormedUrl(v) ==
  /\ IsString(v)
  /\ Len(v.s) > Len(Https)
  /\ SubSeq(v.s, 1, Len(Https)) = Https

\* C3 as stated: after every successful construction the stored accessUrl is
\* a non-empty string of the shape https://<host>.
C3_AsStated == Constructed => WellFormedUrl(this.accessUrl)

\* C3 (amended): after every successful construction the stored accessUrl is a
\* string; a derived one has the shape https://<host>, a supplied one is
\* stored as given, whatever string it is.
C3_AccessUrlIsString ==
  Constructed =>
    /\ IsString(this.accessUrl)
    /\ Exists(options0.accessUrl) => this.accessUrl = options0.accessUrl
    /\ ~Exists(options0.accessUrl) => WellFormedUrl(this.accessUrl)

C3_Witness ==
  /\ Constructed
  /\ Exists(options0.accessUrl)
  /\ this.accessUrl = Str(<<>>)

\* C4 as stated: after a successful construction with validation on, the
\* stored username, password and account are non-empty strings.
C4_AsStated ==
  [][(pc = "new" /\ pc' = "constructed" /\ ValidationOn) =>
       \A field \in {"username", "password", "account"} :
         IsString(this'[field]) /\ this'[field].s # <<>>]_vars

\* C4 (amended): after a successful construction with validation on, the
\* stored username, password and account are strings, the username and the
\* password exactly as supplied; an empty string is accepted.
C4_CredentialsAreStrings ==
  [][(pc = "new" /\ pc' = "constructed" /\ ValidationOn) =>
       /\ \A field \in {"username", "password", "account"} :
            IsString(this'[field])
       /\ this'.username = options0.username
       /\ this'.password = options0.password]_vars

C4_Witness ==
  /\ Constructed
  /\ ValidationOn
  /\ this.username = Str(<<>>)
  /\ this.account = Str(<<>>)

HostOnly == Exists(options0.proxyHost) /\ ~Exists(options0.proxyPort)

PortOnly == ~Exists(options0.proxyHost) /\ Exists(options0.proxyPort)

ProxyErrorCodes ==
  {"ERR_CONN_CREATE_MISSING_PROXY_HOST", "ERR_CONN_CREATE_INVALID_PROXY_HOST",
   "ERR_CONN_CREATE_MISSING_PROXY_PORT", "ERR_CONN_CREATE_INVALID_PROXY_PORT"}

FullOrAbsent(proxy) ==
  proxy.present => (IsString(proxy.host) /\ IsNumber(proxy.port))

\* the checks that precede the proxy block pass
IdentityPasses ==
  LET identity == ValidateIdentity(options0, validateCredentials)
  IN /\ OptionsErrors(optionsType) = NoError
     /\ identity.err = NoError
     /\ AccessUrlErrors(identity.o) = NoError

WithoutProxy(o) == [o EXCEPT !.proxyHost = Undef, !.proxyPort = Undef]

\* C5 as stated: getProxy() is absent or has a string host and a number port;
\* in a server-capable context proxyHost without proxyPort fails with the
\* missing-proxy-port error and proxyPort without proxyHost with the
\* missing-proxy-host error; elsewhere proxy fields cause no error and no
\* settings.
C5_AsStated ==
  /\ Constructed => FullOrAbsent(this.proxy)
  /\ (Returned /\ isNode /\ HostOnly) =>
       error = "ERR_CONN_CREATE_MISSING_PROXY_PORT"
  /\ (Returned /\ isNode /\ PortOnly) =>
       error = "ERR_CONN_CREATE_MISSING_PROXY_HOST"
  /\ (Returned /\ ~isNode) =>
       /\ error \notin ProxyErrorCodes
       /\ Constructed => ~this.proxy.present

\* C5 (amended): getProxy() is absent or has a string host and a number port;
\* in a server-capable context, once the options, credential and accessUrl
\* checks have passed, a string proxyHost without proxyPort fails with the
\* missing-proxy-port error, a non-string proxyHost without proxyPort with the
\* invalid-proxy-host error, and proxyPort without proxyHost with the
\* missing-proxy-host error; elsewhere the proxy fields change nothing: the
\* outcome is that of the same options without them, and no settings exist.
C5_ProxyFullOrAbsent ==
  /\ Constructed => FullOrAbsent(this.proxy)
  /\ (Returned /\ isNode /\ IdentityPasses /\ HostOnly) =>
       /\ pc = "failed"
       /\ error = IF IsString(options0.proxyHost)
                  THEN "ERR_CONN_CREATE_MISSING_PROXY_PORT"
                  ELSE "ERR_CONN_CREATE_INVALID_PROXY_HOST"
  /\ (Returned /\ isNode /\ IdentityPasses /\ PortOnly) =>
       /\ pc = "failed"
       /\ error = "ERR_CONN_CREATE_MISSING_PROXY_HOST"
  /\ (Returned /\ ~isNode) =>
       /\ error = ConnectionConfig(WithoutProxy(options0), optionsType,
                                   validateCredentials, isNode, qaMode,
                                   clientInfo, KeyOrder).error
       /\ Constructed => ~this.proxy.present

C5_Witness ==
  /\ pc = "failed"
  /\ isNode
  /\ IdentityPasses
  /\ IsString(options0.proxyHost)
  /\ ~Exists(options0.proxyPort)
  /\ error = "ERR_CONN_CREATE_MISSING_PROXY_PORT"

\* the catalog as the interface documents it
CatalogDefault(name) ==
  CASE name = "timeout" -> Num(90000, 0)
    [] name = "resultPrefetch" -> Num(2, 0)
    [] name = "resultStreamInterrupts" -> Num(3, 0)
    [] name = "resultChunkCacheSize" -> Num(1, 0)
    [] name = "resultProcessingBatchSize" -> Num(1000, 0)
    [] name = "resultProcessingBatchDuration" -> Num(100, 0)
    [] name = "rowStreamHighWaterMark" -> Num(10, 0)
    [] name = "largeResultSetRetryMaxNumRetries" -> Num(10, 0)
    [] name = "largeResultSetRetryMaxSleepTime" -> Num(16, 0)
    [] name = "sfRetryMaxNumRetries" -> Num(1000, 0)
    [] name = "sfRetryStartingSleepTime" -> Num(0, 25)
    [] name = "sfRetryMaxSleepTime" -> Num(16, 0)

CatalogNames ==
  {"timeout", "resultPrefetch", "resultStreamInterrupts",
   "resultChunkCacheSize", "resultProcessingBatchSize",
   "resultProcessingBatchDuration", "rowStreamHighWaterMark",
   "largeResultSetRetryMaxNumRetries", "largeResultSetRetryMaxSleepTime",
   "sfRetryMaxNumRetries", "sfRetryStartingSleepTime", "sfRetryMaxSleepTime"}

Overridable == {"timeout", "resultPrefetch"}

ExpectedValue(name) ==
  IF name \in Overridable /\ IsPositiveInteger(options0[name])
  THEN options0[name]
  ELSE CatalogDefault(name)

WithoutParameters(o) == [k \in Keys |-> IF k \in CatalogNames THEN Undef ELSE o[k]]

\* C6: after construction the accessor of each of the 12 catalog parameters
\* returns the supplied value when the parameter is overridable (timeout,
\* resultPrefetch) and its validator accepts the value, and the catalog default
\* in every other case; the supplied parameter values never change whether
\* construction fails.
C6_OverrideOrDefault ==
  /\ Cardinality(CatalogNames) = 12
  /\ Constructed =>
       \A name \in CatalogNames :
         getParameterValue(this, name) =
           [error |-> NoError, value |-> ExpectedValue(name)]
  /\ Returned =>
       error = ConnectionConfig(WithoutParameters(options0), optionsType,
                                validateCredentials, isNode, qaMode,
                                clientInfo, KeyOrder).error

C6_Witness ==
  /\ Constructed
  /\ options0.timeout = Num(-1, 0)
  /\ options0.resultStreamInterrupts = Num(99, 0)
  /\ getParameterValue(this, "timeout").value = Num(90000, 0)
  /\ getParameterValue(this, "resultStreamInterrupts").value = Num(3, 0)

C8_AsStated ==
  (lastRead # NoRead /\ lastRead.name \notin CatalogNames) =>
    lastRead.error = "ERR_INTERNAL_ASSERT_FAILED"

\* C8 (amended): reading a name that is not in the registry raises no error
\* at all and returns undefined.
C8_UnknownNameReadsUndefined ==
  (lastRead # NoRead /\ lastRead.name \notin CatalogNames) =>
    /\ lastRead.error = NoError
    /\ lastRead.value = Undef

C8_Witness == lastRead.name = "unknown" /\ Constructed

\* C9 as stated: whether construction succeeds or fails, every field of the
\* options object other than account and region is what it was before.
C9_AsStated ==
  Returned => \A k \in Keys \ {"account", "region"} : options[k] = options0[k]

\* C9 (amended): whether construction succeeds or fails, every field of the
\* options object other than account, region and accessUrl is what it was
\* before; accessUrl is rewritten (to the derived url) only with validation on
\* and no accessUrl supplied, and with validation off nothing is rewritten.
C9_OnlyIdentityFieldsRewritten ==
  Returned =>
    /\ \A k \in Keys \ {"account", "region", "accessUrl"} :
         options[k] = options0[k]
    /\ (Exists(options0.accessUrl) \/ ~ValidationOn) =>
         options.accessUrl = options0.accessUrl
    /\ ~ValidationOn => options = options0

C9_Witness ==
  /\ pc = "failed"
  /\ ~Exists(options0.accessUrl)
  /\ options.accessUrl = Str(Https \o <<"a">> \o SnowflakeDomain)
  /\ error = "ERR_CONN_CREATE_MISSING_PROXY_PORT"

\* the resolution that walks the catalog and looks only its names up
ReferenceValue(o, i) ==
  LET entry == createParameters[i]
  IN IF entry.external /\ Validate(entry.validate, o[entry.name])
     THEN o[entry.name]
     ELSE entry.defaultValue

\* C10: whenever the options pass validation, the parameters resolve to what
\* the walk over the catalog gives, whatever other keys the options carry and
\* in whatever order the keys are enumerated, and no value is undefined.
C10_CatalogWalk ==
  (Returned /\ ValidationError(options0, optionsType, validateCredentials,
                               isNode, clientInfo) = NoError) =>
    /\ Constructed
    /\ \A i \in 1..Len(createParameters) :
         /\ this.mapParameters[createParameters[i].name].value
              = ReferenceValue(options0, i)
         /\ this.mapParameters[createParameters[i].name].value # Undef

====
